---- MODULE Spec2Model ----
(***************************************************************************)
(* BRD generator core: the section parser (AIService._parse_response) and  *)
(* the validation engine (ValidationService), which one cached service     *)
(* instance runs for every request (src/app.py:25-32).                     *)
(*                                                                         *)
(* Text is modelled by TLA+ strings, operated on character by character    *)
(* (Len, SubSeq and \o of the Sequences module).  Scores are exact         *)
(* rationals <<numerator, denominator>> in lowest terms; for every score   *)
(* the code can produce, the float comparisons of the source and the       *)
(* rational ones agree.                                                    *)
(*                                                                         *)
(* A request is a sequence of steps, one per access to what the threads    *)
(* share: the attribute self._current_result and the fields of the result  *)
(* objects reachable through it.  hasattr, the attribute read and the      *)
(* attribute store of lines 127-128 and 172-173 are three steps, since the *)
(* interpreter may switch threads between any two of them.  Work on a      *)
(* thread's own locals is folded into the step that follows it.  The calls *)
(* entry records, for each call, its inputs and whether it ran while       *)
(* another call was inside validate_brd_content.                           *)
(***************************************************************************)
EXTENDS Integers, Sequences, FiniteSets, TLC

(***************************************************************************)
(* Bounds                                                                  *)
(***************************************************************************)
\* longest raw text, in lines, handed to the parser in SpecParse
MaxLines == 4
\* validate_brd_content calls over the life of the service instance
MaxCalls == 2

(***************************************************************************)
(* Python str and list operations                                          *)
(***************************************************************************)
Char(s, i) == SubSeq(s, i, i)

Whitespace == {" ", "\t", "\n", "\r"}

LowerMap ==
  [c \in {"A","B","C","D","E","F","G","H","I","J","K","L","M",
          "N","O","P","Q","R","S","T","U","V","W","X","Y","Z"} |->
     CASE c = "A" -> "a" [] c = "B" -> "b" [] c = "C" -> "c" [] c = "D" -> "d"
       [] c = "E" -> "e" [] c = "F" -> "f" [] c = "G" -> "g" [] c = "H" -> "h"
       [] c = "I" -> "i" [] c = "J" -> "j" [] c = "K" -> "k" [] c = "L" -> "l"
       [] c = "M" -> "m" [] c = "N" -> "n" [] c = "O" -> "o" [] c = "P" -> "p"
       [] c = "Q" -> "q" [] c = "R" -> "r" [] c = "S" -> "s" [] c = "T" -> "t"
       [] c = "U" -> "u" [] c = "V" -> "v" [] c = "W" -> "w" [] c = "X" -> "x"
       [] c = "Y" -> "y" [] c = "Z" -> "z"]

\* str.lower()
RECURSIVE lower(_)
lower(s) ==
  IF Len(s) = 0 THEN ""
  ELSE IF Len(s) = 1 THEN (IF s \in DOMAIN LowerMap THEN LowerMap[s] ELSE s)
  ELSE LET h == Len(s) \div 2
       IN  lower(SubSeq(s, 1, h)) \o lower(SubSeq(s, h + 1, Len(s)))

\* sub in s
contains(sub, s) ==
  \E i \in 0..(Len(s) - Len(sub)) : SubSeq(s, i + 1, i + Len(sub)) = sub

\* str.strip()
strip(s) ==
  LET keep == {i \in 1..Len(s) : Char(s, i) \notin Whitespace}
  IN  IF keep = {} THEN ""
      ELSE SubSeq(s, CHOOSE i \in keep : \A j \in keep : i <= j,
                     CHOOSE i \in keep : \A j \in keep : j <= i)

\* str.split(sep) for a one-character separator
RECURSIVE split(_, _)
split(s, sep) ==
  LET hits == {i \in 1..Len(s) : Char(s, i) = sep}
  IN  IF hits = {} THEN <<s>>
      ELSE LET i == CHOOSE k \in hits : \A j \in hits : k <= j
           IN  <<SubSeq(s, 1, i - 1)>> \o split(SubSeq(s, i + 1, Len(s)), sep)

\* len(str.split()): the number of maximal runs of non-whitespace characters
word_count(s) ==
  Cardinality({i \in 1..Len(s) :
                 /\ Char(s, i) \notin Whitespace
                 /\ (i = 1 \/ Char(s, i - 1) \in Whitespace)})

\* str.replace(old, "") for a one-character old
RECURSIVE remove_char(_, _)
remove_char(s, old) ==
  IF Len(s) = 0 THEN ""
  ELSE IF Len(s) = 1 THEN (IF s = old THEN "" ELSE s)
  ELSE LET h == Len(s) \div 2
       IN  remove_char(SubSeq(s, 1, h), old) \o remove_char(SubSeq(s, h + 1, Len(s)), old)

\* sep.join(parts)
RECURSIVE join(_, _)
join(sep, parts) ==
  IF Len(parts) = 0 THEN ""
  ELSE IF Len(parts) = 1 THEN parts[1]
  ELSE parts[1] \o sep \o join(sep, Tail(parts))

(***************************************************************************)
(* Python dict: a sequence of <<key, value>> pairs in insertion order      *)
(***************************************************************************)
dict_keys(d) == [i \in 1..Len(d) |-> d[i][1]]

dict_values(d) == [i \in 1..Len(d) |-> d[i][2]]

has_key(d, k) == \E i \in 1..Len(d) : d[i][1] = k

dict_get(d, k) == d[CHOOSE i \in 1..Len(d) : d[i][1] = k][2]

\* dict_set that adds an entry even when the key is present
dict_set_append(d, k, v) == Append(d, <<k, v>>)

\* d[k] = v: an existing key keeps its position
dict_set(d, k, v) ==
  IF has_key(d, k)
  THEN [i \in 1..Len(d) |-> IF d[i][1] = k THEN <<k, v>> ELSE d[i]]
  ELSE Append(d, <<k, v>>)

(***************************************************************************)
(* Configuration (src/config/settings.py)                                  *)
(***************************************************************************)
BRD_SECTIONS ==
  << "Project Overview",
     "Business Objectives",
     "Functional Requirements",
     "Non-Functional Requirements",
     "Key Performance Indicators (KPIs)",
     "Compliance & Risk Assessment",
     "Stakeholder Analysis",
     "Project Scope" >>

COMPLIANCE_KEYWORDS ==
  [d \in {"Pharma", "Finance"} |->
     IF d = "Pharma"
     THEN <<"FDA", "21 CFR Part 11", "HIPAA", "GxP", "clinical trial", "adverse event">>
     ELSE <<"Basel III", "GDPR", "credit risk", "probability of default",
            "loss given default", "collateral">>]

(***************************************************************************)
(* Section parser (src/services/ai_service.py)                             *)
(***************************************************************************)
section_keywords ==
  << "Project Overview", "Business Objectives", "Functional Requirements",
     "Non-Functional Requirements", "Key Performance Indicators", "KPIs",
     "Compliance", "Risk Assessment", "Stakeholder Analysis", "Project Scope" >>

\* _is_section_header without the two lower() of line 248
_is_section_header_exact_case(line) ==
  \E i \in 1..Len(section_keywords) : contains(section_keywords[i], line)

_is_section_header(line) ==
  \E i \in 1..Len(section_keywords) :
     contains(lower(section_keywords[i]), lower(line))

\* Placeholder without the text: the added section is left empty
PlaceholderBlank(required_section) == ""

Placeholder(required_section) ==
  "[Content for " \o required_section
     \o " will be generated based on specific requirements]"

\* ParseLine that starts the content of a new section with its header line
ParseLineHeaderInBody(st, raw_line) ==
  LET line == strip(raw_line)
  IN  IF _is_section_header(line)
      THEN [sections |->
              IF st.current_section # ""
              THEN dict_set(st.sections, st.current_section,
                            strip(join("\n", st.current_content)))
              ELSE st.sections,
            current_section |-> strip(remove_char(line, "#")),
            current_content |-> <<line>>]
      ELSE IF line # "" /\ st.current_section # ""
      THEN [st EXCEPT !.current_content = Append(@, line)]
      ELSE st

\* One iteration of the line loop.  st = [sections, current_section,
\* current_content]; current_section = "" stands for None, which the code
\* only ever tests for truth.
ParseLine(st, raw_line) ==
  LET line == strip(raw_line)
  IN  IF _is_section_header(line)
      THEN [sections |->
              IF st.current_section # ""
              THEN dict_set(st.sections, st.current_section,
                            strip(join("\n", st.current_content)))
              ELSE st.sections,
            current_section |-> strip(remove_char(line, "#")),
            current_content |-> <<>>]
      ELSE IF line # "" /\ st.current_section # ""
      THEN [st EXCEPT !.current_content = Append(@, line)]
      ELSE st

RECURSIVE ParseLines(_, _)
ParseLines(st, lines) ==
  IF Len(lines) = 0 THEN st
  ELSE ParseLines(ParseLine(st, Head(lines)), Tail(lines))

\* EnsureRequired that puts the placeholders before the parsed sections
EnsureRequiredFirst(sections, required) ==
  LET absent == SelectSeq(required, LAMBDA r : ~has_key(sections, r))
  IN  [i \in 1..Len(absent) |-> <<absent[i], Placeholder(absent[i])>>]
        \o sections

\* EnsureRequired without the reconciliation: no placeholder is added
EnsureRequiredNone(sections, required) == sections

\* the reconciliation loop over the required sections
RECURSIVE EnsureRequired(_, _)
EnsureRequired(sections, required) ==
  IF Len(required) = 0 THEN sections
  ELSE EnsureRequired(
         IF ~has_key(sections, Head(required))
         THEN dict_set(sections, Head(required), Placeholder(Head(required)))
         ELSE sections,
         Tail(required))

_parse_response(response_text, required) ==
  LET st == ParseLines([sections |-> <<>>, current_section |-> "",
                        current_content |-> <<>>],
                       split(response_text, "\n"))
      flushed ==
        IF st.current_section # "" /\ Len(st.current_content) > 0
        THEN dict_set(st.sections, st.current_section,
                      strip(join("\n", st.current_content)))
        ELSE st.sections
  IN  EnsureRequired(flushed, required)

(***************************************************************************)
(* Scores: exact rationals <<numerator, denominator>> in lowest terms      *)
(***************************************************************************)
RECURSIVE GCD(_, _)
GCD(a, b) == IF b = 0 THEN a ELSE GCD(b, a % b)

Frac(n, d) == LET g == GCD(n, d) IN <<n \div g, d \div g>>

Zero == <<0, 1>>

One == <<1, 1>>

Lt(a, b) == a[1] * b[2] < b[1] * a[2]

Geq(a, b) == ~Lt(a, b)

MinFrac(a, b) == IF Lt(b, a) THEN b ELSE a

(***************************************************************************)
(* ValidationResult (src/services/validation_service.py:14-53)             *)
(***************************************************************************)
ValidationResult ==
  [is_valid |-> TRUE,
   compliance_score |-> Zero,
   terminology_score |-> Zero,
   completeness_score |-> Zero,
   overall_score |-> Zero,
   missing_keywords |-> <<>>,
   missing_sections |-> <<>>,
   recommendations |-> <<>>,
   warnings |-> <<>>]

\* 0.4 * compliance + 0.3 * terminology + 0.3 * completeness
WeightedScore(c, t, m) ==
  Frac(4 * c[1] * t[2] * m[2] + 3 * t[1] * c[2] * m[2] + 3 * m[1] * c[2] * t[2],
       10 * c[2] * t[2] * m[2])

calculate_overall_score(r) ==
  LET overall == WeightedScore(r.compliance_score, r.terminology_score,
                               r.completeness_score)
  IN  [r EXCEPT !.overall_score = overall,
                !.is_valid = Geq(overall, <<7, 10>>)]

\* ExceptBlock without line 101: is_valid keeps its initial True
ExceptBlockKeepValid(r, message) ==
  [r EXCEPT !.warnings = Append(@, "Validation error: " \o message)]

\* the except block of validate_brd_content (lines 98-101)
ExceptBlock(r, message) ==
  [r EXCEPT !.warnings = Append(@, "Validation error: " \o message),
            !.is_valid = FALSE]

NoAttributeMessage ==
  "'ValidationService' object has no attribute '_current_result'"

(***************************************************************************)
(* The scorers' computations (src/services/validation_service.py)          *)
(***************************************************************************)
\* " ".join(brd_sections.values()).lower()
all_content(sections) == lower(join(" ", dict_values(sections)))

\* found_keywords without keyword.lower() at line 118
found_keywords_exact_case(required_keywords, content) ==
  SelectSeq(required_keywords, LAMBDA k : contains(k, content))

found_keywords(required_keywords, content) ==
  SelectSeq(required_keywords, LAMBDA k : contains(lower(k), content))

missing_keywords(required_keywords, content) ==
  SelectSeq(required_keywords, LAMBDA k : ~contains(lower(k), content))

\* the score computed at line 124
compliance_score(sections, required_keywords) ==
  IF Len(required_keywords) > 0
  THEN Frac(Len(found_keywords(required_keywords, all_content(sections))),
            Len(required_keywords))
  ELSE Zero

_get_domain_terminology(dom) ==
  IF lower(dom) = "pharma"
  THEN << "clinical trial", "adverse event", "fda", "hipaa", "gxp",
          "investigational", "pharmacovigilance", "regulatory", "validation",
          "protocol", "informed consent", "data integrity", "audit trail" >>
  ELSE IF lower(dom) = "finance"
  THEN << "credit risk", "basel iii", "probability of default",
          "loss given default", "collateral", "regulatory", "compliance",
          "risk assessment", "capital adequacy", "stress testing", "audit",
          "governance" >>
  ELSE << "business", "requirements", "stakeholders", "compliance" >>

\* _validate_domain_terminology expecting every term of the vocabulary
\* instead of min(5, ..) of them (line 146)
_validate_domain_terminology_whole_vocabulary(sections, dom) ==
  LET domain_terminology == _get_domain_terminology(dom)
      content == all_content(sections)
      found_terms == SelectSeq(domain_terminology,
                               LAMBDA term : contains(lower(term), content))
  IN  MinFrac(Frac(Len(found_terms), Len(domain_terminology)), One)

\* _validate_domain_terminology without the clamp min(.., 1.0) of line 147
_validate_domain_terminology_unclamped(sections, dom) ==
  LET domain_terminology == _get_domain_terminology(dom)
      content == all_content(sections)
      found_terms == SelectSeq(domain_terminology,
                               LAMBDA term : contains(lower(term), content))
      expected_terms == IF Len(domain_terminology) < 5
                        THEN Len(domain_terminology) ELSE 5
  IN  Frac(Len(found_terms), expected_terms)

_validate_domain_terminology(sections, dom) ==
  LET domain_terminology == _get_domain_terminology(dom)
      content == all_content(sections)
      found_terms == SelectSeq(domain_terminology,
                               LAMBDA term : contains(lower(term), content))
      expected_terms == IF Len(domain_terminology) < 5
                        THEN Len(domain_terminology) ELSE 5
  IN  MinFrac(Frac(Len(found_terms), expected_terms), One)

\* the loop of _validate_section_completeness (lines 160-164)
missing_sections(sections, required) ==
  SelectSeq(required, LAMBDA s : ~has_key(sections, s))

\* empty_sections without the length test of line 163: only an empty
\* content counts
empty_sections_blank_only(sections, required) ==
  SelectSeq(required,
            LAMBDA s : has_key(sections, s) /\ dict_get(sections, s) = "")

empty_sections(sections, required) ==
  SelectSeq(required,
            LAMBDA s : /\ has_key(sections, s)
                       /\ \/ dict_get(sections, s) = ""
                          \/ Len(strip(dict_get(sections, s))) < 50)

\* the score computed at lines 167-169; the caller excludes total_sections = 0
completeness_score(sections, required) ==
  Frac(Len(required) - Len(missing_sections(sections, required))
                     - Len(empty_sections(sections, required)),
       Len(required))

\* the quality warnings loop (lines 212-218)
RECURSIVE quality_warnings(_)
quality_warnings(sections) ==
  IF Len(sections) = 0 THEN <<>>
  ELSE LET section_name == Head(sections)[1]
           section_content == Head(sections)[2]
       IN  (IF section_content # "" /\ word_count(section_content) < 30
            THEN << "Section '" \o section_name \o "' appears to be too brief ("
                      \o ToString(word_count(section_content)) \o " words)" >>
            ELSE <<>>)
           \o quality_warnings(Tail(sections))

\* list[:3]
first3(l) == SubSeq(l, 1, IF Len(l) < 3 THEN Len(l) ELSE 3)

(***************************************************************************)
(* Quality metrics (validation_service.py:243-296)                         *)
(***************************************************************************)
\* the dict built at lines 254-260
NoMetrics ==
  [total_word_count |-> 0,
   section_word_counts |-> <<>>,
   readability_score |-> Zero,
   structure_score |-> Zero,
   content_quality_issues |-> <<>>]

RECURSIVE sum_word_counts(_)
sum_word_counts(parts) ==
  IF Len(parts) = 0 THEN 0
  ELSE word_count(Head(parts)) + sum_word_counts(Tail(parts))

\* lines 277-280: the average sentence length is above 30
long_sentences(section_content) ==
  LET sentences == split(section_content, ".")
  IN  sum_word_counts(sentences) > 30 * Len(sentences)

\* section_issues with the limit of line 274 taken from line 215
section_issues_under_30(section_name, section_content) ==
  (IF word_count(section_content) < 30
   THEN <<"Section '" \o section_name \o "' is too brief">>
   ELSE <<>>)
  \o (IF long_sentences(section_content)
      THEN <<"Section '" \o section_name \o "' has very long sentences">>
      ELSE <<>>)

\* the issues one section adds (lines 270-283)
section_issues(section_name, section_content) ==
  (IF word_count(section_content) < 20
   THEN <<"Section '" \o section_name \o "' is too brief">>
   ELSE <<>>)
  \o (IF long_sentences(section_content)
      THEN <<"Section '" \o section_name \o "' has very long sentences">>
      ELSE <<>>)

\* the loop of lines 264-283, folded over the sections in order
RECURSIVE quality_loop(_, _)
quality_loop(m, sections) ==
  IF Len(sections) = 0 THEN m
  ELSE LET section_name == Head(sections)[1]
           section_content == Head(sections)[2]
       IN  quality_loop(
             IF section_content # ""
             THEN [m EXCEPT
                     !.section_word_counts =
                        dict_set(@, section_name, word_count(section_content)),
                     !.total_word_count = @ + word_count(section_content),
                     !.content_quality_issues =
                        @ \o section_issues(section_name, section_content)]
             ELSE m,
             Tail(sections))

\* lines 254-296; the caller excludes expected_sections = 0
check_document_quality(sections, required) ==
  LET m == quality_loop(NoMetrics, sections)
      actual_sections ==
        Cardinality({i \in 1..Len(sections) :
                       sections[i][2] # "" /\ Len(strip(sections[i][2])) > 0})
  IN  [m EXCEPT
         !.readability_score =
            IF m.total_word_count > 0
            THEN MinFrac(Frac(m.total_word_count, 500), One)
            ELSE Zero,
         !.structure_score = Frac(actual_sections, Len(required))]

(***************************************************************************)
(* The report (validation_service.py:298-353)                              *)
(***************************************************************************)
\* the text of x * 100 rounded to the whole number v, as d.dd
Hundredths(v) ==
  ToString(v \div 100) \o "." \o ToString((v % 100) \div 10) \o ToString(v % 10)

\* f"{x:.2f}" for a quotient x that the float holds exactly or that is no
\* tie: the nearest hundredth, a tie going to the even one
Format2(x) ==
  LET q == (100 * x[1]) \div x[2]
      rem == 100 * x[1] - q * x[2]
  IN  Hundredths(IF 2 * rem > x[2] \/ (2 * rem = x[2] /\ q % 2 = 1)
                 THEN q + 1 ELSE q)

\* f"{x:.2f}" for the float 0.4*c + 0.3*t + 0.3*m of line 38: next to a tie
\* the rounding error of the float sum decides, so both hundredths can be
\* printed
Format2Float(x) ==
  LET q == (100 * x[1]) \div x[2]
      rem == 100 * x[1] - q * x[2]
  IN  IF 2 * rem = x[2] THEN {Hundredths(q), Hundredths(q + 1)}
      ELSE {Format2(x)}

\* stands for the bullet U+2022 of lines 344 and 351
Bullet == "*"

\* lines 335-338: the numbered recommendations, from number i on
RECURSIVE numbered(_, _)
numbered(recs, i) ==
  IF Len(recs) = 0 THEN <<>>
  ELSE <<"  " \o ToString(i) \o ". " \o Head(recs)>> \o numbered(Tail(recs), i + 1)

\* lines 343-344 and 350-351
bulleted(items) ==
  [i \in 1..Len(items) |-> "  " \o Bullet \o " " \o items[i]]

\* report_lines without the tests of lines 335, 342 and 349: a heading is
\* printed for an empty list too
report_lines_all_headings(r, metrics, overall_text) ==
  << "=== BRD VALIDATION REPORT ===\n",
     "Overall Status: " \o (IF r.is_valid THEN "PASSED" ELSE "FAILED"),
     "Overall Score: " \o overall_text \o "/1.00",
     "",
     "DETAILED SCORES:",
     "  Compliance Score: " \o Format2(r.compliance_score) \o "/1.00",
     "  Terminology Score: " \o Format2(r.terminology_score) \o "/1.00",
     "  Completeness Score: " \o Format2(r.completeness_score) \o "/1.00",
     "",
     "QUALITY METRICS:",
     "  Total Word Count: " \o ToString(metrics.total_word_count),
     "  Readability Score: " \o Format2(metrics.readability_score) \o "/1.00",
     "  Structure Score: " \o Format2(metrics.structure_score) \o "/1.00",
     "" >>
  \o <<"RECOMMENDATIONS:">> \o numbered(r.recommendations, 1) \o <<"">>
  \o <<"WARNINGS:">> \o bulleted(r.warnings) \o <<"">>
  \o <<"CONTENT QUALITY ISSUES:">> \o bulleted(metrics.content_quality_issues)

\* the list report_lines at line 353, with the text of the overall score
report_lines(r, metrics, overall_text) ==
  << "=== BRD VALIDATION REPORT ===\n",
     "Overall Status: " \o (IF r.is_valid THEN "PASSED" ELSE "FAILED"),
     "Overall Score: " \o overall_text \o "/1.00",
     "",
     "DETAILED SCORES:",
     "  Compliance Score: " \o Format2(r.compliance_score) \o "/1.00",
     "  Terminology Score: " \o Format2(r.terminology_score) \o "/1.00",
     "  Completeness Score: " \o Format2(r.completeness_score) \o "/1.00",
     "",
     "QUALITY METRICS:",
     "  Total Word Count: " \o ToString(metrics.total_word_count),
     "  Readability Score: " \o Format2(metrics.readability_score) \o "/1.00",
     "  Structure Score: " \o Format2(metrics.structure_score) \o "/1.00",
     "" >>
  \o (IF Len(r.recommendations) > 0
      THEN <<"RECOMMENDATIONS:">> \o numbered(r.recommendations, 1) \o <<"">>
      ELSE <<>>)
  \o (IF Len(r.warnings) > 0
      THEN <<"WARNINGS:">> \o bulleted(r.warnings) \o <<"">>
      ELSE <<>>)
  \o (IF Len(metrics.content_quality_issues) > 0
      THEN <<"CONTENT QUALITY ISSUES:">> \o bulleted(metrics.content_quality_issues)
      ELSE <<>>)

generate_validation_report(r, metrics, overall_text) ==
  join("\n", report_lines(r, metrics, overall_text))

(***************************************************************************)
(* State                                                                   *)
(***************************************************************************)
VARIABLES
  required_sections,   \* Config.BRD_SECTIONS, also self.required_sections
  compliance_keywords, \* Config.COMPLIANCE_KEYWORDS, also self.compliance_keywords
  api_calls,           \* each thread's calls of chat.complete: their outcomes
  validation_report,   \* each thread's local variable validation_report
  quality_metrics,     \* each thread's local variable quality_metrics
  heap,                \* the ValidationResult objects, by identity 1..Len(heap)
  calls,               \* calls[id]: inputs and history of the call that made heap[id]
  _current_result,     \* self._current_result: an identity, or NoAttr
  returned,            \* identities of the results validate_brd_content returned
  pc,                  \* each request thread's position
  response_text,       \* each thread's raw generation
  domain,              \* each thread's domain argument
  brd_sections,        \* each thread's section model
  result,              \* each thread's local variable result (an identity)
  frame                \* locals of the scorer a thread is in: score, missing, ref

vars == <<required_sections, compliance_keywords, api_calls,
          validation_report, quality_metrics,
          heap, calls, _current_result, returned, pc,
          response_text, domain, brd_sections, result, frame>>

\* hasattr(self, '_current_result') is False
NoAttr == 0

Threads == {1, 2}

\* the requests served concurrently: <<raw generation, domain>>
Requests ==
  { <<"Project Overview\nFDA, HIPAA, GxP: regulatory validation protocol.\nStakeholder Analysis\nTBD", "Pharma">>,
    <<"", "Retail">> }

NoFrame == [score |-> Zero, missing |-> <<>>, ref |-> NoAttr]

\* positions inside validate_brd_content
Validating ==
  { "keywords_load", "keywords_store", "completeness", "sections_load",
    "sections_store", "recommend", "rec_compliance", "rec_keywords",
    "rec_terminology", "rec_sections", "rec_delattr" }

TypeOK ==
  /\ _current_result \in 0..Len(heap)
  /\ returned \subseteq 1..Len(heap)
  /\ Len(calls) = Len(heap)
  /\ \A t \in Threads : result[t] \in 0..Len(heap)
  /\ \A t \in Threads : pc[t] \in Validating \cup {"idle", "request", "validate", "returned",
                                               "quality", "report", "failed", "calling"}

Init ==
  /\ required_sections = BRD_SECTIONS
  /\ compliance_keywords = COMPLIANCE_KEYWORDS
  /\ heap = <<>>
  /\ calls = <<>>
  /\ _current_result = NoAttr
  /\ returned = {}
  /\ api_calls = [t \in Threads |-> <<>>]
  /\ validation_report = [t \in Threads |-> ""]
  /\ quality_metrics = [t \in Threads |-> NoMetrics]
  /\ pc = [t \in Threads |-> "idle"]
  /\ response_text = [t \in Threads |-> ""]
  /\ domain = [t \in Threads |-> ""]
  /\ brd_sections = [t \in Threads |-> <<>>]
  /\ result = [t \in Threads |-> 0]
  /\ frame = [t \in Threads |-> NoFrame]

(***************************************************************************)
(* Steps of one request                                                    *)
(***************************************************************************)
\* Raise with result.calculate_overall_score() (line 94) run before the
\* except block
RaiseScored(t, h, message) ==
  /\ heap' = [h EXCEPT ![result[t]] =
                ExceptBlock(calculate_overall_score(@), message)]
  /\ returned' = returned \cup {result[t]}
  /\ pc' = [pc EXCEPT ![t] = "returned"]
  /\ frame' = [frame EXCEPT ![t] = NoFrame]

\* validate_brd_content leaves through its except block (lines 98-103)
Raise(t, h, message) ==
  /\ heap' = [h EXCEPT ![result[t]] = ExceptBlock(@, message)]
  /\ returned' = returned \cup {result[t]}
  /\ pc' = [pc EXCEPT ![t] = "returned"]
  /\ frame' = [frame EXCEPT ![t] = NoFrame]

\* a request arrives and the backend answers it (ai_service.py:117)
Request(t, requests) ==
  /\ pc[t] = "idle"
  /\ Len(heap) + Cardinality({u \in Threads : pc[u] \in {"request", "validate"}})
       < MaxCalls
  /\ \E rq \in requests :
       /\ response_text' = [response_text EXCEPT ![t] = rq[1]]
       /\ domain' = [domain EXCEPT ![t] = rq[2]]
  /\ pc' = [pc EXCEPT ![t] = "request"]
  /\ UNCHANGED <<required_sections, compliance_keywords, api_calls,
                 validation_report, quality_metrics,
                 heap, calls, _current_result, returned,
                 brd_sections, result, frame>>

\* generate_brd_content: brd_sections = self._parse_response(...) (line 120)
ParseResponse(t) ==
  /\ pc[t] = "request"
  /\ brd_sections' = [brd_sections EXCEPT
                        ![t] = _parse_response(response_text[t], required_sections)]
  /\ pc' = [pc EXCEPT ![t] = "validate"]
  /\ UNCHANGED <<required_sections, compliance_keywords, api_calls,
                 validation_report, quality_metrics,
                 heap, calls, _current_result, returned,
                 response_text, domain, result, frame>>

\* validate_brd_content: result = ValidationResult() (line 78), then
\* _validate_compliance_keywords up to the hasattr test (lines 108-127);
\* without the attribute it returns and line 82 stores the score
ValidateBrdContent(t) ==
  /\ pc[t] = "validate"
  /\ LET id == Len(heap) + 1
         others == {u \in Threads \ {t} : pc[u] \in Validating}
         h == Append(heap, ValidationResult)
     IN  /\ result' = [result EXCEPT ![t] = id]
         /\ calls' = Append([i \in 1..Len(calls) |->
                               IF \E u \in others : result[u] = i
                               THEN [calls[i] EXCEPT !.overlapped = TRUE]
                               ELSE calls[i]],
                            [text |-> response_text[t], domain |-> domain[t],
                             sections |-> brd_sections[t],
                             overlapped |-> others # {}])
         /\ IF domain[t] \notin DOMAIN compliance_keywords
            THEN /\ heap' = [h EXCEPT ![id].compliance_score = <<1, 2>>]
                 /\ pc' = [pc EXCEPT ![t] = "completeness"]
                 /\ frame' = frame
            ELSE LET score == compliance_score(brd_sections[t],
                                                   compliance_keywords[domain[t]])
                     missing == missing_keywords(compliance_keywords[domain[t]],
                                                 all_content(brd_sections[t]))
                 IN  IF _current_result # NoAttr
                     THEN /\ frame' = [frame EXCEPT ![t] = [score |-> score,
                                          missing |-> missing, ref |-> NoAttr]]
                          /\ pc' = [pc EXCEPT ![t] = "keywords_load"]
                          /\ heap' = h
                     ELSE /\ heap' = [h EXCEPT ![id].compliance_score = score]
                          /\ pc' = [pc EXCEPT ![t] = "completeness"]
                          /\ frame' = frame
  /\ UNCHANGED <<required_sections, compliance_keywords, api_calls,
                 validation_report, quality_metrics,
                 _current_result, returned, response_text,
                 domain, brd_sections>>

\* line 128, the read of self._current_result
KeywordsLoad(t) ==
  /\ pc[t] = "keywords_load"
  /\ IF _current_result = NoAttr
     THEN Raise(t, heap, NoAttributeMessage)
     ELSE /\ frame' = [frame EXCEPT ![t].ref = _current_result]
          /\ pc' = [pc EXCEPT ![t] = "keywords_store"]
          /\ UNCHANGED <<heap, returned>>
  /\ UNCHANGED <<required_sections, compliance_keywords, api_calls,
                 validation_report, quality_metrics,
                 calls, _current_result, response_text,
                 domain, brd_sections, result>>

\* KeywordsStore storing the list into the call's own result
KeywordsStoreOwn(t) ==
  /\ pc[t] = "keywords_store"
  /\ heap' = [heap EXCEPT ![result[t]] =
                [@ EXCEPT !.missing_keywords = frame[t].missing,
                          !.compliance_score = frame[t].score]]
  /\ frame' = [frame EXCEPT ![t] = NoFrame]
  /\ pc' = [pc EXCEPT ![t] = "completeness"]
  /\ UNCHANGED <<required_sections, compliance_keywords, api_calls,
                 validation_report, quality_metrics,
                 calls, _current_result, returned,
                 response_text, domain, brd_sections, result>>

\* line 128, the store into the object read, then the return and line 82
KeywordsStore(t) ==
  /\ pc[t] = "keywords_store"
  /\ heap' = [[heap EXCEPT ![frame[t].ref].missing_keywords = frame[t].missing]
                EXCEPT ![result[t]].compliance_score = frame[t].score]
  /\ frame' = [frame EXCEPT ![t] = NoFrame]
  /\ pc' = [pc EXCEPT ![t] = "completeness"]
  /\ UNCHANGED <<required_sections, compliance_keywords, api_calls,
                 validation_report, quality_metrics,
                 calls, _current_result, returned,
                 response_text, domain, brd_sections, result>>

\* line 85, then _validate_section_completeness up to the hasattr test
\* (lines 156-172); line 169 divides by the number of required sections
ValidateSectionCompleteness(t) ==
  /\ pc[t] = "completeness"
  /\ LET h == [heap EXCEPT ![result[t]].terminology_score =
                 _validate_domain_terminology(brd_sections[t], domain[t])]
     IN  IF Len(required_sections) = 0
         THEN Raise(t, h, "division by zero")
         ELSE LET score == completeness_score(brd_sections[t], required_sections)
                  missing == missing_sections(brd_sections[t], required_sections)
                               \o empty_sections(brd_sections[t], required_sections)
              IN  IF _current_result # NoAttr
                  THEN /\ frame' = [frame EXCEPT ![t] = [score |-> score,
                                       missing |-> missing, ref |-> NoAttr]]
                       /\ pc' = [pc EXCEPT ![t] = "sections_load"]
                       /\ heap' = h
                       /\ returned' = returned
                  ELSE /\ heap' = [h EXCEPT ![result[t]].completeness_score = score]
                       /\ pc' = [pc EXCEPT ![t] = "recommend"]
                       /\ UNCHANGED <<frame, returned>>
  /\ UNCHANGED <<required_sections, compliance_keywords, api_calls,
                 validation_report, quality_metrics,
                 calls, _current_result, response_text,
                 domain, brd_sections, result>>

\* line 173, the read of self._current_result
SectionsLoad(t) ==
  /\ pc[t] = "sections_load"
  /\ IF _current_result = NoAttr
     THEN Raise(t, heap, NoAttributeMessage)
     ELSE /\ frame' = [frame EXCEPT ![t].ref = _current_result]
          /\ pc' = [pc EXCEPT ![t] = "sections_store"]
          /\ UNCHANGED <<heap, returned>>
  /\ UNCHANGED <<required_sections, compliance_keywords, api_calls,
                 validation_report, quality_metrics,
                 calls, _current_result, response_text,
                 domain, brd_sections, result>>

\* line 173, the store into the object read, then the return and line 88
SectionsStore(t) ==
  /\ pc[t] = "sections_store"
  /\ heap' = [[heap EXCEPT ![frame[t].ref].missing_sections = frame[t].missing]
                EXCEPT ![result[t]].completeness_score = frame[t].score]
  /\ frame' = [frame EXCEPT ![t] = NoFrame]
  /\ pc' = [pc EXCEPT ![t] = "recommend"]
  /\ UNCHANGED <<required_sections, compliance_keywords, api_calls,
                 validation_report, quality_metrics,
                 calls, _current_result, returned,
                 response_text, domain, brd_sections, result>>

\* _generate_recommendations, line 183: self._current_result = result
SetCurrentResult(t) ==
  /\ pc[t] = "recommend"
  /\ _current_result' = result[t]
  /\ pc' = [pc EXCEPT ![t] = "rec_compliance"]
  /\ UNCHANGED <<required_sections, compliance_keywords, api_calls,
                 validation_report, quality_metrics,
                 heap, calls, returned, response_text,
                 domain, brd_sections, result, frame>>

\* lines 186-190: the generic compliance recommendation and the test of
\* result.missing_keywords
RecCompliance(t) ==
  /\ pc[t] = "rec_compliance"
  /\ LET r == heap[result[t]]
     IN  IF Lt(r.compliance_score, <<8, 10>>)
         THEN /\ heap' = [heap EXCEPT ![result[t]].recommendations =
                            Append(@, "Consider adding more compliance references for "
                                        \o domain[t] \o " domain")]
              /\ pc' = [pc EXCEPT ![t] = IF Len(r.missing_keywords) > 0
                                         THEN "rec_keywords"
                                         ELSE "rec_terminology"]
         ELSE /\ heap' = heap
              /\ pc' = [pc EXCEPT ![t] = "rec_terminology"]
  /\ UNCHANGED <<required_sections, compliance_keywords, api_calls,
                 validation_report, quality_metrics,
                 calls, _current_result, returned,
                 response_text, domain, brd_sections, result, frame>>

\* lines 191-193: the recommendation naming result.missing_keywords[:3]
RecKeywords(t) ==
  /\ pc[t] = "rec_keywords"
  /\ heap' = [heap EXCEPT ![result[t]].recommendations =
                Append(@, "Include these compliance keywords: "
                            \o join(", ", first3(heap[result[t]].missing_keywords)))]
  /\ pc' = [pc EXCEPT ![t] = "rec_terminology"]
  /\ UNCHANGED <<required_sections, compliance_keywords, api_calls,
                 validation_report, quality_metrics,
                 calls, _current_result, returned,
                 response_text, domain, brd_sections, result, frame>>

\* lines 196-203 (and 207-209 when result.missing_sections is empty)
RecTerminology(t) ==
  /\ pc[t] = "rec_terminology"
  /\ LET r == heap[result[t]]
         term == IF Lt(r.terminology_score, <<7, 10>>)
                 THEN << "Include more " \o domain[t]
                           \o "-specific terminology for better domain alignment" >>
                 ELSE <<>>
     IN  IF Lt(r.completeness_score, <<8, 10>>)
         THEN IF Len(r.missing_sections) > 0
              THEN /\ heap' = [heap EXCEPT ![result[t]].recommendations = @ \o term]
                   /\ pc' = [pc EXCEPT ![t] = "rec_sections"]
              ELSE /\ heap' = [heap EXCEPT ![result[t]].recommendations =
                                 @ \o term \o
                                 <<"Ensure each section has comprehensive content (minimum 50 words)">>]
                   /\ pc' = [pc EXCEPT ![t] = "rec_delattr"]
         ELSE /\ heap' = [heap EXCEPT ![result[t]].recommendations = @ \o term]
              /\ pc' = [pc EXCEPT ![t] = "rec_delattr"]
  /\ UNCHANGED <<required_sections, compliance_keywords, api_calls,
                 validation_report, quality_metrics,
                 calls, _current_result, returned,
                 response_text, domain, brd_sections, result, frame>>

\* RecSections with its two recommendations appended in the other order
RecSectionsSwapped(t) ==
  /\ pc[t] = "rec_sections"
  /\ heap' = [heap EXCEPT ![result[t]].recommendations =
                @ \o << "Ensure each section has comprehensive content (minimum 50 words)",
                        "Add content for missing sections: "
                          \o join(", ", heap[result[t]].missing_sections) >>]
  /\ pc' = [pc EXCEPT ![t] = "rec_delattr"]
  /\ UNCHANGED <<required_sections, compliance_keywords, api_calls,
                 validation_report, quality_metrics,
                 calls, _current_result, returned,
                 response_text, domain, brd_sections, result, frame>>

\* lines 204-209: the recommendation naming result.missing_sections
RecSections(t) ==
  /\ pc[t] = "rec_sections"
  /\ heap' = [heap EXCEPT ![result[t]].recommendations =
                @ \o << "Add content for missing sections: "
                          \o join(", ", heap[result[t]].missing_sections),
                        "Ensure each section has comprehensive content (minimum 50 words)" >>]
  /\ pc' = [pc EXCEPT ![t] = "rec_delattr"]
  /\ UNCHANGED <<required_sections, compliance_keywords, api_calls,
                 validation_report, quality_metrics,
                 calls, _current_result, returned,
                 response_text, domain, brd_sections, result, frame>>

\* DelCurrentResult without the delattr of line 221: the attribute stays set
DelCurrentResultKeep(t) ==
  /\ pc[t] = "rec_delattr"
  /\ _current_result' = _current_result
  /\ heap' = [heap EXCEPT ![result[t]] =
                calculate_overall_score(
                  [@ EXCEPT !.warnings = @ \o quality_warnings(brd_sections[t])])]
  /\ returned' = returned \cup {result[t]}
  /\ pc' = [pc EXCEPT ![t] = "returned"]
  /\ UNCHANGED <<required_sections, compliance_keywords, api_calls,
                 validation_report, quality_metrics,
                 calls, response_text, domain,
                 brd_sections, result, frame>>

\* the quality warnings (lines 212-218) and delattr(self, '_current_result')
\* (line 221); then result.calculate_overall_score() and return result
\* (lines 94-103)
DelCurrentResult(t) ==
  /\ pc[t] = "rec_delattr"
  /\ LET h == [heap EXCEPT ![result[t]].warnings =
                 @ \o quality_warnings(brd_sections[t])]
     IN  IF _current_result = NoAttr
         THEN /\ Raise(t, h, NoAttributeMessage)
              /\ _current_result' = _current_result
         ELSE /\ _current_result' = NoAttr
              /\ heap' = [h EXCEPT ![result[t]] = calculate_overall_score(@)]
              /\ returned' = returned \cup {result[t]}
              /\ pc' = [pc EXCEPT ![t] = "returned"]
              /\ frame' = frame
  /\ UNCHANGED <<required_sections, compliance_keywords, api_calls,
                 validation_report, quality_metrics,
                 calls, response_text, domain,
                 brd_sections, result>>

\* CheckDocumentQuality that also appends the issues it finds to the
\* warnings of the result
CheckDocumentQualityFeedback(t) ==
  /\ pc[t] = "returned"
  /\ IF Len(required_sections) = 0
     THEN /\ pc' = [pc EXCEPT ![t] = "failed"]
          /\ quality_metrics' = quality_metrics
          /\ heap' = heap
     ELSE LET m == check_document_quality(brd_sections[t], required_sections)
          IN  /\ quality_metrics' = [quality_metrics EXCEPT ![t] = m]
              /\ heap' = [heap EXCEPT ![result[t]].warnings =
                             @ \o m.content_quality_issues]
              /\ pc' = [pc EXCEPT ![t] = "quality"]
  /\ UNCHANGED <<required_sections, compliance_keywords, api_calls,
                 validation_report, calls, _current_result, returned,
                 response_text, domain, brd_sections, result, frame>>

\* app.py:312: quality_metrics = check_document_quality(brd_sections);
\* line 294 divides by the number of required sections, and the exception
\* leaves the request through the handler of app.py:375
CheckDocumentQuality(t) ==
  /\ pc[t] = "returned"
  /\ IF Len(required_sections) = 0
     THEN /\ pc' = [pc EXCEPT ![t] = "failed"]
          /\ quality_metrics' = quality_metrics
     ELSE /\ quality_metrics' = [quality_metrics EXCEPT ![t] =
                check_document_quality(brd_sections[t], required_sections)]
          /\ pc' = [pc EXCEPT ![t] = "quality"]
  /\ UNCHANGED <<required_sections, compliance_keywords, api_calls,
                 validation_report, heap, calls,
                 _current_result, returned, response_text, domain,
                 brd_sections, result, frame>>

\* app.py:362-365: the user asks for the report of the result and the
\* metrics on display
GenerateValidationReport(t) ==
  /\ pc[t] = "quality"
  /\ \E overall_text \in Format2Float(heap[result[t]].overall_score) :
       validation_report' = [validation_report EXCEPT ![t] =
          generate_validation_report(heap[result[t]], quality_metrics[t],
                                     overall_text)]
  /\ pc' = [pc EXCEPT ![t] = "report"]
  /\ UNCHANGED <<required_sections, compliance_keywords, api_calls,
                 quality_metrics, heap, calls, _current_result, returned,
                 response_text, domain, brd_sections, result, frame>>

\* the request ends and its locals go; the thread serves the next request
Finish(t) ==
  /\ pc[t] \in {"quality", "report", "failed"}
  /\ pc' = [pc EXCEPT ![t] = "idle"]
  /\ response_text' = [response_text EXCEPT ![t] = ""]
  /\ domain' = [domain EXCEPT ![t] = ""]
  /\ brd_sections' = [brd_sections EXCEPT ![t] = <<>>]
  /\ result' = [result EXCEPT ![t] = 0]
  /\ quality_metrics' = [quality_metrics EXCEPT ![t] = NoMetrics]
  /\ validation_report' = [validation_report EXCEPT ![t] = ""]
  /\ api_calls' = [api_calls EXCEPT ![t] = <<>>]
  /\ UNCHANGED <<required_sections, compliance_keywords, heap,
                 calls, _current_result, returned, frame>>

Step(t, requests) ==
  \/ Request(t, requests)
  \/ ParseResponse(t)
  \/ ValidateBrdContent(t)
  \/ KeywordsLoad(t)
  \/ KeywordsStore(t)
  \/ ValidateSectionCompleteness(t)
  \/ SectionsLoad(t)
  \/ SectionsStore(t)
  \/ SetCurrentResult(t)
  \/ RecCompliance(t)
  \/ RecKeywords(t)
  \/ RecTerminology(t)
  \/ RecSections(t)
  \/ DelCurrentResult(t)
  \/ CheckDocumentQuality(t)
  \/ Finish(t)

\* requests served concurrently by the threads of the server, on the one
\* cached ValidationService
Next == \E t \in Threads : Step(t, Requests)

Spec == Init /\ [][Next]_vars

(***************************************************************************)
(* Other configurations: the required-section list is configuration, and   *)
(* the core is specified for any list, the empty one included              *)
(***************************************************************************)
ScenarioASections ==
  <<"Project Overview", "Business Objectives", "Functional Requirements">>

RequiredSectionChoices == {BRD_SECTIONS, ScenarioASections, <<>>}

InitConfig ==
  /\ required_sections \in RequiredSectionChoices
  /\ compliance_keywords = COMPLIANCE_KEYWORDS
  /\ heap = <<>>
  /\ calls = <<>>
  /\ _current_result = NoAttr
  /\ returned = {}
  /\ api_calls = [t \in Threads |-> <<>>]
  /\ validation_report = [t \in Threads |-> ""]
  /\ quality_metrics = [t \in Threads |-> NoMetrics]
  /\ pc = [t \in Threads |-> "idle"]
  /\ response_text = [t \in Threads |-> ""]
  /\ domain = [t \in Threads |-> ""]
  /\ brd_sections = [t \in Threads |-> <<>>]
  /\ result = [t \in Threads |-> 0]
  /\ frame = [t \in Threads |-> NoFrame]

SpecConfig == InitConfig /\ [][Next]_vars

(***************************************************************************)
(* Scenario A: three required sections, two of them present and thin; the  *)
(* same text is submitted under the domain names 'Pharma' and 'pharma'     *)
(***************************************************************************)
ScenarioAText ==
  "Project Overview\nThis is the overview.\nBusiness Objectives\nGrow revenue."

ScenarioARequests == {<<ScenarioAText, "Pharma">>, <<ScenarioAText, "pharma">>}

InitScenarioA ==
  /\ required_sections = ScenarioASections
  /\ compliance_keywords = COMPLIANCE_KEYWORDS
  /\ heap = <<>>
  /\ calls = <<>>
  /\ _current_result = NoAttr
  /\ returned = {}
  /\ api_calls = [t \in Threads |-> <<>>]
  /\ validation_report = [t \in Threads |-> ""]
  /\ quality_metrics = [t \in Threads |-> NoMetrics]
  /\ pc = [t \in Threads |-> "idle"]
  /\ response_text = [t \in Threads |-> ""]
  /\ domain = [t \in Threads |-> ""]
  /\ brd_sections = [t \in Threads |-> <<>>]
  /\ result = [t \in Threads |-> 0]
  /\ frame = [t \in Threads |-> NoFrame]

NextScenarioA == \E t \in Threads : Step(t, ScenarioARequests)

SpecScenarioA == InitScenarioA /\ [][NextScenarioA]_vars

(***************************************************************************)
(* Other keyword tables: the table is configuration; in the table of       *)
(* Scenario B a domain is configured with an empty keyword list            *)
(***************************************************************************)
ScenarioBKeywords ==
  [d \in {"Pharma", "Retail"} |->
     IF d = "Pharma" THEN <<"FDA", "HIPAA">> ELSE <<>>]

KeywordTables == {COMPLIANCE_KEYWORDS, ScenarioBKeywords}

KeywordRequests ==
  { <<"Project Overview\nAll patient data is fda regulated.", "Pharma">>,
    <<"", "Retail">> }

InitKeywords ==
  /\ required_sections = ScenarioASections
  /\ compliance_keywords \in KeywordTables
  /\ heap = <<>>
  /\ calls = <<>>
  /\ _current_result = NoAttr
  /\ returned = {}
  /\ api_calls = [t \in Threads |-> <<>>]
  /\ validation_report = [t \in Threads |-> ""]
  /\ quality_metrics = [t \in Threads |-> NoMetrics]
  /\ pc = [t \in Threads |-> "idle"]
  /\ response_text = [t \in Threads |-> ""]
  /\ domain = [t \in Threads |-> ""]
  /\ brd_sections = [t \in Threads |-> <<>>]
  /\ result = [t \in Threads |-> 0]
  /\ frame = [t \in Threads |-> NoFrame]

NextKeywords == \E t \in Threads : Step(t, KeywordRequests)

SpecKeywords == InitKeywords /\ [][NextKeywords]_vars

(***************************************************************************)
(* Section lengths: texts with an empty section and with sections of 20,   *)
(* 29 and 30 words                                                         *)
(***************************************************************************)
Words20 ==
  "The bank will score each loan by risk so that staff can see which ones may fail to pay back."

Words29 ==
  "This plan sets out how the bank will rate loans by risk. It names the teams that take part, the data they use and the dates for each step."

Words30 ==
  "Each night the system reads loans, rates them, and sends a list to the risk team. The team checks the list and marks the loans that need a closer look."

WordRequests ==
  { <<"Project Overview\nBusiness Objectives\n" \o Words20
        \o "\nFunctional Requirements\n" \o Words30, "Finance">>,
    <<"Project Overview\n" \o Words29, "Finance">> }

InitWords ==
  /\ required_sections = ScenarioASections
  /\ compliance_keywords = COMPLIANCE_KEYWORDS
  /\ heap = <<>>
  /\ calls = <<>>
  /\ _current_result = NoAttr
  /\ returned = {}
  /\ api_calls = [t \in Threads |-> <<>>]
  /\ validation_report = [t \in Threads |-> ""]
  /\ quality_metrics = [t \in Threads |-> NoMetrics]
  /\ pc = [t \in Threads |-> "idle"]
  /\ response_text = [t \in Threads |-> ""]
  /\ domain = [t \in Threads |-> ""]
  /\ brd_sections = [t \in Threads |-> <<>>]
  /\ result = [t \in Threads |-> 0]
  /\ frame = [t \in Threads |-> NoFrame]

NextWords == \E t \in Threads : Step(t, WordRequests)

SpecWords == InitWords /\ [][NextWords]_vars

(***************************************************************************)
(* The report: one required section; one request passes with no            *)
(* recommendation, warning or issue, the other fails with all of them      *)
(***************************************************************************)
ReportSections == <<"Project Overview">>

ReportRequests ==
  { <<"Project Overview\nThe bank rates each loan for credit risk under Basel III and GDPR. It scores the probability of default and the loss given default, values the collateral, and keeps an audit trail for the regulatory review each year.",
      "Finance">>,
    <<"Project Overview\nTBD", "Finance">> }

InitReport ==
  /\ required_sections = ReportSections
  /\ compliance_keywords = COMPLIANCE_KEYWORDS
  /\ heap = <<>>
  /\ calls = <<>>
  /\ _current_result = NoAttr
  /\ returned = {}
  /\ api_calls = [t \in Threads |-> <<>>]
  /\ validation_report = [t \in Threads |-> ""]
  /\ quality_metrics = [t \in Threads |-> NoMetrics]
  /\ pc = [t \in Threads |-> "idle"]
  /\ response_text = [t \in Threads |-> ""]
  /\ domain = [t \in Threads |-> ""]
  /\ brd_sections = [t \in Threads |-> <<>>]
  /\ result = [t \in Threads |-> 0]
  /\ frame = [t \in Threads |-> NoFrame]

NextReport ==
  \E t \in Threads :
    \/ Step(t, ReportRequests)
    \/ GenerateValidationReport(t)

SpecReport == InitReport /\ [][NextReport]_vars

(***************************************************************************)
(* Domain vocabulary: texts that hold six of the thirteen Pharma terms     *)
(* and two of the twelve Finance terms                                     *)
(***************************************************************************)
TermRequests ==
  { <<"Project Overview\nFDA, HIPAA and GxP.\nBusiness Objectives\nRegulatory validation.\nFunctional Requirements\nOne protocol.", "Pharma">>,
    <<"Project Overview\nCredit risk.\nBusiness Objectives\nAn audit.\nFunctional Requirements\nNone.", "Finance">> }

InitTerms ==
  /\ required_sections = ScenarioASections
  /\ compliance_keywords = COMPLIANCE_KEYWORDS
  /\ heap = <<>>
  /\ calls = <<>>
  /\ _current_result = NoAttr
  /\ returned = {}
  /\ api_calls = [t \in Threads |-> <<>>]
  /\ validation_report = [t \in Threads |-> ""]
  /\ quality_metrics = [t \in Threads |-> NoMetrics]
  /\ pc = [t \in Threads |-> "idle"]
  /\ response_text = [t \in Threads |-> ""]
  /\ domain = [t \in Threads |-> ""]
  /\ brd_sections = [t \in Threads |-> <<>>]
  /\ result = [t \in Threads |-> 0]
  /\ frame = [t \in Threads |-> NoFrame]

NextTerms == \E t \in Threads : Step(t, TermRequests)

SpecTerms == InitTerms /\ [][NextTerms]_vars

(***************************************************************************)
(* The request to the Mistral API and its retries                          *)
(***************************************************************************)
\* @retry(stop=stop_after_attempt(3), ...) on _make_mistral_request
stop_after_attempt == 3

\* what one attempt can raise: the ValueError of an empty response (line 75)
\* or an error of the client; retry_if_exception_type((ConnectionError,
\* TimeoutError, Exception)) retries on each of them
AttemptErrors == {"ValueError", "ConnectionError", "TimeoutError"}

\* generate_brd_content is entered (app.py:295) and reaches
\* self._make_mistral_request(messages) (ai_service.py:117)
StartRequest(t, requests) ==
  /\ pc[t] = "idle"
  /\ \E rq \in requests : domain' = [domain EXCEPT ![t] = rq[2]]
  /\ pc' = [pc EXCEPT ![t] = "calling"]
  /\ UNCHANGED <<required_sections, compliance_keywords, api_calls,
                 validation_report, quality_metrics,
                 heap, calls, _current_result, returned,
                 response_text, brd_sections, result, frame>>

\* one attempt whose chat.complete call answers with choices: the text is
\* returned through the decorator to generate_brd_content (lines 66-80, 117)
AttemptSucceeds(t, requests) ==
  /\ pc[t] = "calling"
  /\ \E rq \in requests :
       /\ rq[2] = domain[t]
       /\ api_calls' = [api_calls EXCEPT ![t] = Append(@, <<"ok", rq[1]>>)]
       /\ response_text' = [response_text EXCEPT ![t] = rq[1]]
  /\ pc' = [pc EXCEPT ![t] = "request"]
  /\ UNCHANGED <<required_sections, compliance_keywords,
                 validation_report, quality_metrics,
                 heap, calls, _current_result, returned,
                 domain, brd_sections, result, frame>>

\* a retry policy that retries on ConnectionError and TimeoutError only: the
\* ValueError of an empty response ends the request at once
AttemptFailsNoRetryOnEmpty(t) ==
  /\ pc[t] = "calling"
  /\ \E error \in AttemptErrors :
       /\ api_calls' = [api_calls EXCEPT ![t] = Append(@, <<error, "">>)]
       /\ pc' = [pc EXCEPT ![t] =
                   IF error = "ValueError" \/ Len(api_calls[t]) + 1 >= stop_after_attempt
                   THEN "failed" ELSE "calling"]
  /\ UNCHANGED <<required_sections, compliance_keywords,
                 validation_report, quality_metrics,
                 heap, calls, _current_result, returned,
                 response_text, domain, brd_sections, result, frame>>

\* one attempt that raises (lines 74-75, 82-84): the decorator waits and
\* calls again, unless this was the last attempt it allows; then it raises,
\* generate_brd_content re-raises (lines 125-127) and the handler of
\* app.py:375 ends the request
AttemptFails(t) ==
  /\ pc[t] = "calling"
  /\ \E error \in AttemptErrors :
       api_calls' = [api_calls EXCEPT ![t] = Append(@, <<error, "">>)]
  /\ pc' = [pc EXCEPT ![t] =
              IF Len(api_calls[t]) + 1 >= stop_after_attempt
              THEN "failed" ELSE "calling"]
  /\ UNCHANGED <<required_sections, compliance_keywords,
                 validation_report, quality_metrics,
                 heap, calls, _current_result, returned,
                 response_text, domain, brd_sections, result, frame>>

InitRetry == Init

NextRetry ==
  \E t \in Threads :
    \/ StartRequest(t, Requests)
    \/ AttemptSucceeds(t, Requests)
    \/ AttemptFails(t)
    \/ ParseResponse(t)
    \/ Finish(t)

\* an attempt that was started ends: the call returns or raises, and the
\* decorator's wait between two attempts is at most 10 seconds
FairRetry == \A t \in Threads : WF_vars(AttemptSucceeds(t, Requests) \/ AttemptFails(t))

SpecRetry == InitRetry /\ [][NextRetry]_vars /\ FairRetry

(***************************************************************************)
(* The parser alone, on every raw text of at most MaxLines lines           *)
(***************************************************************************)
Lines ==
  { "Project Overview",
    "### 3. Functional Requirements ###",
    "  Business Objectives\t",
    "",
    "The system shall be validated.",
    "Meets FDA compliance rules.",
    "Risk Assessment" }

RECURSIVE TextsOf(_)
TextsOf(n) ==
  IF n = 0 THEN {""}
  ELSE IF n = 1 THEN Lines
  ELSE {t \o "\n" \o l : t \in TextsOf(n - 1), l \in Lines}

ParseInputs == UNION {TextsOf(n) : n \in 0..MaxLines}

InitParse ==
  /\ required_sections \in RequiredSectionChoices
  /\ compliance_keywords = COMPLIANCE_KEYWORDS
  /\ heap = <<>>
  /\ calls = <<>>
  /\ _current_result = NoAttr
  /\ returned = {}
  /\ api_calls = [t \in Threads |-> <<>>]
  /\ validation_report = [t \in Threads |-> ""]
  /\ quality_metrics = [t \in Threads |-> NoMetrics]
  /\ pc = [t \in Threads |-> IF t = 1 THEN "request" ELSE "idle"]
  /\ response_text \in {[t \in Threads |-> IF t = 1 THEN text ELSE ""] :
                          text \in ParseInputs}
  /\ domain = [t \in Threads |-> IF t = 1 THEN "Pharma" ELSE ""]
  /\ brd_sections = [t \in Threads |-> <<>>]
  /\ result = [t \in Threads |-> 0]
  /\ frame = [t \in Threads |-> NoFrame]

NextParse == ParseResponse(1)

SpecParse == InitParse /\ [][NextParse]_vars

\* the parser without a required-section list: the stored model is exactly
\* what the lines of the text give
InitParseBody ==
  /\ required_sections = <<>>
  /\ compliance_keywords = COMPLIANCE_KEYWORDS
  /\ heap = <<>>
  /\ calls = <<>>
  /\ _current_result = NoAttr
  /\ returned = {}
  /\ api_calls = [t \in Threads |-> <<>>]
  /\ validation_report = [t \in Threads |-> ""]
  /\ quality_metrics = [t \in Threads |-> NoMetrics]
  /\ pc = [t \in Threads |-> IF t = 1 THEN "request" ELSE "idle"]
  /\ response_text \in {[t \in Threads |-> IF t = 1 THEN text ELSE ""] :
                          text \in ParseInputs}
  /\ domain = [t \in Threads |-> IF t = 1 THEN "Pharma" ELSE ""]
  /\ brd_sections = [t \in Threads |-> <<>>]
  /\ result = [t \in Threads |-> 0]
  /\ frame = [t \in Threads |-> NoFrame]

NextParseBody == ParseResponse(1)

SpecParseBody == InitParseBody /\ [][NextParseBody]_vars

(***************************************************************************)
(* Properties                                                              *)
(***************************************************************************)
Range(f) == {f[i] : i \in 1..Len(f)}

\* the thread holds a parsed section model
Parsed(t) == pc[t] \notin {"idle", "request"}

\* the required keywords of call c's domain that do not occur in its content
ExpectedMissingKeywords(c) ==
  IF c.domain \in DOMAIN compliance_keywords
  THEN missing_keywords(compliance_keywords[c.domain], all_content(c.sections))
  ELSE <<>>

\* the required sections absent from call c's model, then the thin ones
ExpectedMissingSections(c) ==
  missing_sections(c.sections, required_sections)
    \o empty_sections(c.sections, required_sections)

KeywordRecPrefix == "Include these compliance keywords: "

IsKeywordRec(rec) ==
  /\ Len(rec) >= Len(KeywordRecPrefix)
  /\ SubSeq(rec, 1, Len(KeywordRecPrefix)) = KeywordRecPrefix

InUnit(x) == Geq(x, Zero) /\ Geq(One, x)

\* C1: after parsing, every name of the required-section list is a key of
\* the section model, whatever the raw text.
C1_RequiredKeysPresent ==
  \A t \in Threads :
    Parsed(t) =>
      \A i \in 1..Len(required_sections) :
        has_key(brd_sections[t], required_sections[i])

\* a decorated header was parsed and all eight required names were added
C1_Witness ==
  /\ pc[1] = "validate"
  /\ required_sections = BRD_SECTIONS
  /\ response_text[1] =
       "### 3. Functional Requirements ###\nThe system shall be validated."
  /\ Len(brd_sections[1]) = 9

\* C2: a call that ran alone returns, as missing_keywords, the required
\* keywords absent from the content and, as missing_sections, the required
\* sections that are absent or thin.
C2_MissingItemsReported ==
  \A id \in returned :
    ~calls[id].overlapped =>
      /\ heap[id].missing_keywords = ExpectedMissingKeywords(calls[id])
      /\ heap[id].missing_sections = ExpectedMissingSections(calls[id])

\* C3: a missing-keyword list in a result, and a recommendation naming
\* keywords, only ever comes from another, overlapping call: the list is the
\* one computed for a different request.
C3_KeywordsComeFromAnotherCall ==
  \A id \in 1..Len(heap) :
    /\ heap[id].missing_keywords # <<>> =>
         /\ calls[id].overlapped
         /\ \E j \in (1..Len(heap)) \ {id} :
              heap[id].missing_keywords = ExpectedMissingKeywords(calls[j])
    /\ \A k \in 1..Len(heap[id].recommendations) :
         IsKeywordRec(heap[id].recommendations[k]) =>
           /\ calls[id].overlapped
           /\ \E j \in (1..Len(heap)) \ {id} :
                heap[id].recommendations[k] =
                  KeywordRecPrefix
                    \o join(", ", first3(ExpectedMissingKeywords(calls[j])))

\* the result returned for the Retail request, which has no keyword set,
\* names the keywords missing from the Pharma request
C3_Witness ==
  \E id \in returned :
    /\ calls[id].domain = "Retail"
    /\ heap[id].missing_keywords = <<"21 CFR Part 11", "clinical trial", "adverse event">>
    /\ \E k \in 1..Len(heap[id].recommendations) :
         heap[id].recommendations[k] =
           "Include these compliance keywords: 21 CFR Part 11, clinical trial, adverse event"

\* C4: a required section holding the parser's placeholder is counted as
\* thin, and the model parsed from empty text scores completeness 0.
C4_PlaceholdersAreThin ==
  \A id \in 1..Len(calls) :
    /\ \A s \in Range(required_sections) :
         (has_key(calls[id].sections, s)
            /\ dict_get(calls[id].sections, s) = Placeholder(s))
         => s \in Range(empty_sections(calls[id].sections, required_sections))
    /\ (id \in returned /\ ~calls[id].overlapped /\ calls[id].text = "")
         => heap[id].completeness_score = Zero

\* line names required section s without being equal to it
DecoratedHeader(line, s) ==
  /\ _is_section_header(strip(line))
  /\ contains(lower(s), lower(strip(line)))
  /\ strip(line) # s

BodyLine(line) == strip(line) # "" /\ ~_is_section_header(strip(line))

\* C5: the body after a decorated header of a required section is stored
\* under the required name, which gets no placeholder.
C5_DecoratedHeaderCanonical ==
  \A t \in Threads :
    pc[t] = "validate" =>
      LET lines == split(response_text[t], "\n")
      IN  \A i \in 1..(Len(lines) - 1) :
            \A s \in Range(required_sections) :
              (DecoratedHeader(lines[i], s) /\ BodyLine(lines[i + 1])) =>
                /\ has_key(brd_sections[t], s)
                /\ dict_get(brd_sections[t], s) # Placeholder(s)
                /\ contains(strip(lines[i + 1]), dict_get(brd_sections[t], s))

\* C6: every returned result has overall_score = 0.4 * compliance_score
\* + 0.3 * terminology_score + 0.3 * completeness_score.
C6_OverallIsWeightedSum ==
  \A id \in returned :
    heap[id].overall_score =
      WeightedScore(heap[id].compliance_score, heap[id].terminology_score,
                    heap[id].completeness_score)

\* C7: in every returned result, is_valid holds exactly when
\* overall_score >= 0.7.
C7_ValidIffThreshold ==
  \A id \in returned :
    heap[id].is_valid <=> Geq(heap[id].overall_score, <<7, 10>>)

HasValidationError(r) ==
  \E k \in 1..Len(r.warnings) :
    SubSeq(r.warnings[k], 1, 17) = "Validation error:"

\* one call returned a valid result, another left through the except block
C7_Witness ==
  /\ \E id \in returned : heap[id].is_valid
  /\ \E id \in returned : HasValidationError(heap[id])

\* C8: the four scores of every returned result lie in [0, 1].
C8_ScoresInUnitInterval ==
  \A id \in returned :
    /\ InUnit(heap[id].compliance_score)
    /\ InUnit(heap[id].terminology_score)
    /\ InUnit(heap[id].completeness_score)
    /\ InUnit(heap[id].overall_score)

\* a result was returned for empty text under an empty required-section
\* list, and one whose terminology score was clamped to 1
C8_Witness ==
  /\ required_sections = <<>>
  /\ \E id \in returned : calls[id].text = ""
  /\ \E id \in returned : heap[id].terminology_score = One

\* C9: calls that ran one after the other on the same inputs have equal
\* section models and equal results, field by field.
C9_SameInputsSameResult ==
  \A i, j \in returned :
    (/\ ~calls[i].overlapped
     /\ ~calls[j].overlapped
     /\ calls[i].text = calls[j].text
     /\ calls[i].domain = calls[j].domain)
    => /\ calls[i].sections = calls[j].sections
       /\ heap[i] = heap[j]

\* the same Pharma request was served twice, one call after the other
C9_Witness ==
  \E i, j \in returned :
    /\ i # j
    /\ ~calls[i].overlapped
    /\ ~calls[j].overlapped
    /\ calls[i].domain = "Pharma"
    /\ calls[i] = calls[j]
    /\ heap[i].recommendations # <<>>

\* C10: no step changes a field of a result that has been returned.
C10_ReturnedResultImmutable ==
  [][\A id \in returned : heap'[id] = heap[id]]_vars

\* the key line 222 derives from a header line
CleanedName(line) == strip(remove_char(strip(line), "#"))

\* no line from position i + 1 on is a header or a body line
OpenAtEnd(lines, i) ==
  \A j \in (i + 1)..Len(lines) :
    ~_is_section_header(strip(lines[j])) /\ ~BodyLine(lines[j])

\* C17: every header line of the raw text yields a key equal to its cleaned
\* name, and a section still open at the end of the input with no body is
\* stored with empty content.
C17_EveryHeaderIsAKey ==
  \A t \in Threads :
    pc[t] = "validate" =>
      LET lines == split(response_text[t], "\n")
      IN  \A i \in 1..Len(lines) :
            _is_section_header(strip(lines[i])) =>
              /\ has_key(brd_sections[t], CleanedName(lines[i]))
              /\ OpenAtEnd(lines, i) =>
                   dict_get(brd_sections[t], CleanedName(lines[i])) = ""

\* no line of the raw text is a section header
NoHeaderLine(text) ==
  \A l \in Range(split(text, "\n")) : ~_is_section_header(strip(l))

FollowsDirectly(r, a, b) ==
  \E j \in 1..(Len(r.recommendations) - 1) :
    r.recommendations[j] = a /\ r.recommendations[j + 1] = b

\* C12: for a call that ran alone, a compliance score below 0.8 with a
\* missing keyword gives a recommendation naming the first three missing
\* keywords right after the generic compliance recommendation, and a
\* completeness score below 0.8 with a missing or thin required section gives
\* a recommendation naming all of them.
C12_MissingItemsNamed ==
  \A id \in returned :
    (~calls[id].overlapped /\ ~HasValidationError(heap[id])) =>
      /\ (Lt(heap[id].compliance_score, <<8, 10>>)
            /\ Len(ExpectedMissingKeywords(calls[id])) > 0) =>
           FollowsDirectly(heap[id],
             "Consider adding more compliance references for "
               \o calls[id].domain \o " domain",
             "Include these compliance keywords: "
               \o join(", ", first3(ExpectedMissingKeywords(calls[id]))))
      /\ (Lt(heap[id].completeness_score, <<8, 10>>)
            /\ Len(ExpectedMissingSections(calls[id])) > 0) =>
           \E j \in 1..Len(heap[id].recommendations) :
             heap[id].recommendations[j] =
               "Add content for missing sections: "
                 \o join(", ", ExpectedMissingSections(calls[id]))

\* C11: whatever the raw text, the domain and the required-section list, the
\* empty list included, no operation of a request raises: the request never
\* leaves through the exception handler.
C11_NoOperationRaises ==
  \A t \in Threads : pc[t] # "failed"

\* the number of required sections that are no key of the model
MissingCount(sections) ==
  Cardinality({i \in 1..Len(required_sections) :
                 ~has_key(sections, required_sections[i])})

\* the number of required sections whose stripped content has under 50
\* characters
ThinCount(sections) ==
  Cardinality({i \in 1..Len(required_sections) :
                 /\ has_key(sections, required_sections[i])
                 /\ Len(strip(dict_get(sections, required_sections[i]))) < 50})

\* C16: the completeness score is (R - missing - thin) / R for R required
\* sections; for the raw text of Scenario A with R = 3 the model has three
\* keys and the score is 1/3.
C16_CompletenessFormula ==
  \A id \in returned :
    ~HasValidationError(heap[id]) =>
      LET R == Len(required_sections)
          sections == calls[id].sections
      IN  /\ heap[id].completeness_score[1] * R =
               (R - MissingCount(sections) - ThinCount(sections))
                 * heap[id].completeness_score[2]
          /\ (calls[id].text = ScenarioAText /\ R = 3) =>
               /\ Len(sections) = 3
               /\ heap[id].completeness_score = <<1, 3>>

\* a call on the text of Scenario A returned: two thin sections and the
\* placeholder of the third, which has 50 characters or more
C16_Witness ==
  \E id \in returned :
    /\ ~HasValidationError(heap[id])
    /\ calls[id].text = ScenarioAText
    /\ Len(required_sections) = 3
    /\ ThinCount(calls[id].sections) = 2
    /\ MissingCount(calls[id].sections) = 0
    /\ heap[id].completeness_score = <<1, 3>>

\* C15: the domain is treated case-insensitively: two calls on the same raw
\* text whose domain names differ only in letter case return the same four
\* scores.
C15_DomainCaseInsensitive ==
  \A a, b \in returned :
    (/\ calls[a].text = calls[b].text
     /\ lower(calls[a].domain) = lower(calls[b].domain)
     /\ ~HasValidationError(heap[a])
     /\ ~HasValidationError(heap[b])) =>
      /\ heap[a].compliance_score = heap[b].compliance_score
      /\ heap[a].terminology_score = heap[b].terminology_score
      /\ heap[a].completeness_score = heap[b].completeness_score
      /\ heap[a].overall_score = heap[b].overall_score

\* s begins with prefix
StartsWith(s, prefix) ==
  Len(s) >= Len(prefix) /\ SubSeq(s, 1, Len(prefix)) = prefix

\* the place of a recommendation in the order of section 4.5: 1 generic
\* compliance, 2 keyword naming, 3 terminology, 4 section naming, 5 minimum
\* length; 0 for any other text
RecKind(rec, dom) ==
  IF rec = "Consider adding more compliance references for " \o dom \o " domain"
  THEN 1
  ELSE IF StartsWith(rec, "Include these compliance keywords: ") THEN 2
  ELSE IF rec = "Include more " \o dom
                  \o "-specific terminology for better domain alignment"
  THEN 3
  ELSE IF StartsWith(rec, "Add content for missing sections: ") THEN 4
  ELSE IF rec = "Ensure each section has comprehensive content (minimum 50 words)"
  THEN 5
  ELSE 0

\* the positions in the model of the sections a warning names
WarnedSections(warning, sections) ==
  {i \in 1..Len(sections) :
     StartsWith(warning, "Section '" \o sections[i][1]
                           \o "' appears to be too brief (")}

\* C13: the recommendations of a result come in the fixed order compliance
\* (generic, then keyword naming), terminology, completeness (section naming,
\* then minimum length), and its warnings follow the iteration order of the
\* sections of the model.
C13_RecommendationOrder ==
  \A id \in returned :
    LET recs == heap[id].recommendations
        warns == SelectSeq(heap[id].warnings,
                           LAMBDA w : ~StartsWith(w, "Validation error:"))
        sections == calls[id].sections
    IN  /\ \A j \in 1..Len(recs) : RecKind(recs[j], calls[id].domain) > 0
        /\ \A j \in 1..(Len(recs) - 1) :
             RecKind(recs[j], calls[id].domain)
               < RecKind(recs[j + 1], calls[id].domain)
        /\ \A j \in 1..Len(warns) : WarnedSections(warns[j], sections) # {}
        /\ \A j \in 1..(Len(warns) - 1) :
             \A a \in WarnedSections(warns[j], sections) :
               \A b \in WarnedSections(warns[j + 1], sections) : a < b

\* a result with all five recommendations and a warning for each of the
\* three sections
C13_Witness ==
  \E id \in returned :
    /\ Len(heap[id].recommendations) = 5
    /\ Len(heap[id].warnings) = 3
    /\ ~HasValidationError(heap[id])

\* the number of keywords of the list that occur, in any letter case, in the
\* values of the model joined by single spaces
FoundCount(keywords, sections) ==
  LET content == lower(join(" ", dict_values(sections)))
  IN  Cardinality({k \in 1..Len(keywords) :
                     contains(lower(keywords[k]), content)})

\* C14: the compliance score is the number of required keywords found,
\* case-insensitively, in the concatenated content over the number of required
\* keywords; a domain without an entry in the table scores 0.5, with no
\* missing keyword for a call that ran alone, and no error; a domain with an
\* empty keyword list scores 0.
C14_ComplianceScore ==
  \A id \in returned :
    LET c == calls[id]
        score == heap[id].compliance_score
    IN  /\ (c.domain \notin DOMAIN compliance_keywords /\ ~c.overlapped) =>
             /\ ~HasValidationError(heap[id])
             /\ heap[id].missing_keywords = <<>>
        /\ ~HasValidationError(heap[id]) =>
             IF c.domain \notin DOMAIN compliance_keywords
             THEN score = <<1, 2>>
             ELSE IF Len(compliance_keywords[c.domain]) = 0
             THEN score = <<0, 1>>
             ELSE score[1] * Len(compliance_keywords[c.domain]) =
                    FoundCount(compliance_keywords[c.domain], c.sections)
                      * score[2]

\* under the table of Scenario B one call found 'FDA' (written 'fda' in the
\* text) and not 'HIPAA', and one call had the empty keyword list
C14_Witness ==
  /\ compliance_keywords = ScenarioBKeywords
  /\ \E id \in returned :
       /\ calls[id].domain = "Pharma"
       /\ ~HasValidationError(heap[id])
       /\ FoundCount(compliance_keywords["Pharma"], calls[id].sections) = 1
       /\ heap[id].compliance_score = <<1, 2>>
  /\ \E id \in returned :
       /\ calls[id].domain = "Retail"
       /\ ~HasValidationError(heap[id])
       /\ heap[id].compliance_score = <<0, 1>>

\* the warning of section 4.5 for a section and a word count
BriefWarning(section_name, words) ==
  "Section '" \o section_name \o "' appears to be too brief ("
    \o ToString(words) \o " words)"

\* the number of warnings of result r that name the section
WarningsNaming(r, section_name) ==
  Cardinality({k \in 1..Len(r.warnings) :
                 StartsWith(r.warnings[k],
                            "Section '" \o section_name \o "' appears")})

\* C19: a result carries, for every section of the model with fewer than 30
\* words, the empty section with 0 words included, exactly one warning naming
\* the section and its word count, and no warning for a section of 30 words
\* or more.
C19_WarningPerShortSection ==
  \A id \in returned :
    ~HasValidationError(heap[id]) =>
      \A i \in 1..Len(calls[id].sections) :
        LET section_name == calls[id].sections[i][1]
            words == word_count(calls[id].sections[i][2])
        IN  IF words < 30
            THEN /\ WarningsNaming(heap[id], section_name) = 1
                 /\ \E k \in 1..Len(heap[id].warnings) :
                      heap[id].warnings[k] = BriefWarning(section_name, words)
            ELSE WarningsNaming(heap[id], section_name) = 0

\* C20: for a section of 20 to 29 words the result of validate_brd_content
\* has the 'too brief' warning and the metrics of check_document_quality have
\* no 'too brief' issue for it.
C20_ThresholdsIndependent ==
  \A t \in Threads :
    (pc[t] = "quality" /\ ~HasValidationError(heap[result[t]])) =>
      \A i \in 1..Len(brd_sections[t]) :
        LET section_name == brd_sections[t][i][1]
            words == word_count(brd_sections[t][i][2])
        IN  (20 <= words /\ words <= 29) =>
              /\ \E k \in 1..Len(heap[result[t]].warnings) :
                   heap[result[t]].warnings[k] = BriefWarning(section_name, words)
              /\ \A k \in 1..Len(quality_metrics[t].content_quality_issues) :
                   quality_metrics[t].content_quality_issues[k]
                     # "Section '" \o section_name \o "' is too brief"

\* both requests were measured: one has a section of 20 words, the other a
\* section of 29 words, and each has its warning and no issue
C20_Witness ==
  /\ \A t \in Threads :
       pc[t] = "quality" /\ ~HasValidationError(heap[result[t]])
  /\ dict_get(brd_sections[1], "Business Objectives") = Words20
  /\ dict_get(brd_sections[2], "Project Overview") = Words29
  /\ quality_metrics[1].section_word_counts =
       <<<<"Business Objectives", 20>>, <<"Functional Requirements", 30>>>>
  /\ Len(quality_metrics[2].content_quality_issues) = 2

\* the position of the first occurrence of sub in s, 0 when there is none
Pos(sub, s) ==
  LET hits == {i \in 1..(Len(s) - Len(sub) + 1) :
                 SubSeq(s, i, i + Len(sub) - 1) = sub}
  IN  IF hits = {} THEN 0 ELSE CHOOSE i \in hits : \A j \in hits : i <= j

\* the headings of the blocks every report has, in the order of section 4.7
FixedHeadings ==
  << "=== BRD VALIDATION REPORT ===", "Overall Status: ", "Overall Score: ",
     "DETAILED SCORES:", "  Compliance Score: ", "  Terminology Score: ",
     "  Completeness Score: ", "QUALITY METRICS:" >>

\* C24: a report has its fixed blocks in the order header, overall status and
\* score, the three sub-scores, quality metrics; then recommendations,
\* warnings and content-quality issues, each present, heading included,
\* exactly when its list is non-empty; the status reads PASSED exactly when
\* is_valid is true.
C24_ReportBlocks ==
  \A t \in Threads :
    pc[t] = "report" =>
      LET text == validation_report[t]
          r == heap[result[t]]
          recs == Pos("RECOMMENDATIONS:", text)
          warns == Pos("WARNINGS:", text)
          issues == Pos("CONTENT QUALITY ISSUES:", text)
          last == Pos("QUALITY METRICS:", text)
      IN  /\ Pos(FixedHeadings[1], text) = 1
          /\ \A k \in 1..(Len(FixedHeadings) - 1) :
               Pos(FixedHeadings[k], text) < Pos(FixedHeadings[k + 1], text)
          /\ (recs > 0) <=> (Len(r.recommendations) > 0)
          /\ (warns > 0) <=> (Len(r.warnings) > 0)
          /\ (issues > 0) <=>
               (Len(quality_metrics[t].content_quality_issues) > 0)
          /\ recs > 0 => recs > last
          /\ warns > 0 => warns > last /\ warns > recs
          /\ issues > 0 => issues > last /\ issues > recs /\ issues > warns
          /\ (Pos("Overall Status: PASSED", text) > 0) <=> r.is_valid
          /\ (Pos("Overall Status: FAILED", text) > 0) <=> ~r.is_valid

\* one report of a passing result without any of the three optional blocks
\* and one of a failing result with all three
C24_Witness ==
  /\ \A t \in Threads : pc[t] = "report"
  /\ \E t \in Threads :
       /\ heap[result[t]].is_valid
       /\ Pos("RECOMMENDATIONS:", validation_report[t]) = 0
       /\ Pos("WARNINGS:", validation_report[t]) = 0
       /\ Pos("CONTENT QUALITY ISSUES:", validation_report[t]) = 0
  /\ \E t \in Threads :
       /\ ~heap[result[t]].is_valid
       /\ Pos("RECOMMENDATIONS:", validation_report[t]) > 0
       /\ Pos("WARNINGS:", validation_report[t]) > 0
       /\ Pos("CONTENT QUALITY ISSUES:", validation_report[t]) > 0

\* C21: the metrics check_document_quality returns have a readability_score
\* and a structure_score in [0, 1].
C21_QualityScoresInUnitInterval ==
  \A t \in Threads :
    pc[t] = "quality" =>
      /\ InUnit(quality_metrics[t].readability_score)
      /\ InUnit(quality_metrics[t].structure_score)

\* thread t holds a section model that a later operation of its request reads
HoldsModel(t) ==
  pc[t] \in Validating \cup {"validate", "returned", "quality", "report"}

\* C22: no step of validate_brd_content, check_document_quality or
\* generate_validation_report changes a section model (keys, order, contents),
\* the required-section list or the keyword table, and the step of
\* check_document_quality changes no ValidationResult.
C22_ModelAndConfigurationUnchanged ==
  [][/\ required_sections' = required_sections
     /\ compliance_keywords' = compliance_keywords
     /\ \A t \in Threads :
          (HoldsModel(t) /\ pc'[t] # "idle") =>
            brd_sections'[t] = brd_sections[t]
     /\ (\E t \in Threads : pc[t] = "returned" /\ pc'[t] \in {"quality", "failed"})
          => heap' = heap]_vars

\* a request went through the three operations and its model is still the
\* one the parser made
C22_Witness ==
  \E t \in Threads :
    /\ pc[t] = "report"
    /\ brd_sections[t] = _parse_response(response_text[t], required_sections)
    /\ Len(quality_metrics[t].content_quality_issues) > 0
    /\ Len(heap[result[t]].warnings) = 1

\* the number of terms of the vocabulary that occur, in any letter case, in
\* the values of the model joined by single spaces
FoundTerms(vocabulary, sections) ==
  LET content == lower(join(" ", dict_values(sections)))
  IN  Cardinality({k \in 1..Len(vocabulary) :
                     contains(lower(vocabulary[k]), content)})

\* C23: the terminology score is min(found / min(5, V), 1) for a vocabulary
\* of V terms of which found occur in the content; five terms or more give 1.
C23_TerminologyScore ==
  \A id \in returned :
    ~HasValidationError(heap[id]) =>
      LET vocabulary == _get_domain_terminology(calls[id].domain)
          V == Len(vocabulary)
          found == FoundTerms(vocabulary, calls[id].sections)
          expected == IF V < 5 THEN V ELSE 5
          score == heap[id].terminology_score
      IN  /\ IF found >= expected
             THEN score = <<1, 1>>
             ELSE score[1] * expected = found * score[2]
          /\ found >= 5 => score = <<1, 1>>

\* one call found six of the thirteen Pharma terms and scored 1, another
\* found two of the twelve Finance terms and scored 2/5
C23_Witness ==
  /\ \E id \in returned :
       /\ calls[id].domain = "Pharma"
       /\ FoundTerms(_get_domain_terminology("Pharma"), calls[id].sections) = 6
       /\ heap[id].terminology_score = <<1, 1>>
  /\ \E id \in returned :
       /\ calls[id].domain = "Finance"
       /\ ~HasValidationError(heap[id])
       /\ FoundTerms(_get_domain_terminology("Finance"), calls[id].sections) = 2
       /\ heap[id].terminology_score = <<2, 5>>

\* C27: under the shipped configuration a call leaves through the except
\* block only when it overlapped another call, and its result then has
\* is_valid = False, a 'Validation error' warning and overall_score 0.0,
\* whatever sub-scores and recommendations it already holds.
C27_ErrorOnlyByOverlap ==
  \A id \in returned :
    HasValidationError(heap[id]) =>
      /\ calls[id].overlapped
      /\ ~heap[id].is_valid
      /\ heap[id].overall_score = <<0, 1>>

\* the removal of _current_result failed for a call that had computed a
\* positive compliance score and a recommendation
C27_Witness ==
  \E id \in returned :
    /\ HasValidationError(heap[id])
    /\ heap[id].warnings[Len(heap[id].warnings)] =
         "Validation error: " \o NoAttributeMessage
    /\ Len(heap[id].recommendations) > 0
    /\ heap[id].compliance_score = <<1, 2>>
    /\ heap[id].overall_score = <<0, 1>>
    /\ ~heap[id].is_valid

\* the positions of the header lines, in order
HeaderPositions(lines) ==
  SelectSeq([j \in 1..Len(lines) |-> j],
            LAMBDA j : _is_section_header(strip(lines[j])))

\* hd are the positions of the headers among n lines; the first header after
\* line i, or n + 1
NextHeader(hd, n, i) ==
  LET later == {k \in 1..Len(hd) : hd[k] > i}
  IN  IF later = {} THEN n + 1
      ELSE hd[CHOOSE k \in later : \A m \in later : k <= m]

\* the stripped non-blank lines between header i and the next header
BodyLines(lines, hd, i) ==
  LET between == SubSeq(lines, i + 1, NextHeader(hd, Len(lines), i) - 1)
  IN  SelectSeq([k \in 1..Len(between) |-> strip(between[k])],
                LAMBDA l : l # "")

\* the positions of the headers whose section is stored: another header
\* follows, or there is a body
FlushedPositions(lines, hd) ==
  SelectSeq(hd, LAMBDA i : \/ NextHeader(hd, Len(lines), i) <= Len(lines)
                           \/ BodyLines(lines, hd, i) # <<>>)

\* the stored headers that are the last stored one of their cleaned name
LastFlushedPositions(lines, hd) ==
  LET fl == FlushedPositions(lines, hd)
      names == SelectSeq([k \in 1..Len(fl) |-> CleanedName(lines[fl[k]])],
                         LAMBDA x : TRUE)
  IN  {fl[k] : k \in {k \in 1..Len(fl) :
                        \A m \in (k + 1)..Len(fl) : names[m] # names[k]}}

\* C25: the content stored for a parsed section is the stripped non-blank
\* non-header lines between its header and the next header or the end of the
\* input, in order and joined by newlines; every other entry of the model is
\* the placeholder of a required section, so a line before the first header
\* is in no section.
C25_ContentIsTheBodyLines ==
  \A t \in Threads :
    pc[t] = "validate" =>
      LET lines == split(response_text[t], "\n")
          hd == HeaderPositions(lines)
          last == LastFlushedPositions(lines, hd)
          model == brd_sections[t]
      IN  /\ \A i \in last :
               /\ has_key(model, CleanedName(lines[i]))
               /\ dict_get(model, CleanedName(lines[i]))
                    = join("\n", BodyLines(lines, hd, i))
          /\ \A k \in 1..Len(model) :
               \/ \E i \in last : CleanedName(lines[i]) = model[k][1]
               \/ /\ model[k][1] \in Range(required_sections)
                  /\ model[k][2] = Placeholder(model[k][1])

\* a body line before the first header was dropped and the two body lines
\* after the header were stored, joined by a newline
C25_Witness ==
  /\ pc[1] = "validate"
  /\ response_text[1] =
       "The system shall be validated.\nRisk Assessment\nThe system shall be validated.\nThe system shall be validated."
  /\ required_sections = <<>>
  /\ brd_sections[1] =
       << <<"Risk Assessment",
            "The system shall be validated.\nThe system shall be validated.">> >>

\* the fixed section keywords, in lower case
KeywordsLower ==
  { "project overview", "business objectives", "functional requirements",
    "non-functional requirements", "key performance indicators", "kpis",
    "compliance", "risk assessment", "stakeholder analysis", "project scope" }

\* the positions of the lines that contain a keyword in any letter case
KeywordPositions(lines) ==
  SelectSeq([j \in 1..Len(lines) |-> j],
            LAMBDA j : \E k \in KeywordsLower : contains(k, lower(strip(lines[j]))))

\* C26: a line is a header exactly when it contains a section keyword in any
\* letter case: such a line closes the open section, whose content ends
\* before it, and opens a section keyed by the whole line without '#'.
C26_KeywordLineBreaksSection ==
  \A t \in Threads :
    pc[t] = "validate" =>
      LET lines == split(response_text[t], "\n")
          kw == KeywordPositions(lines)
          stored == FlushedPositions(lines, kw)
          last == LastFlushedPositions(lines, kw)
          model == brd_sections[t]
      IN  /\ \A k \in 1..Len(stored) :
               has_key(model, CleanedName(lines[stored[k]]))
          /\ \A k \in 1..(Len(kw) - 1) :
               kw[k] \in last =>
                 dict_get(model, CleanedName(lines[kw[k]]))
                   = join("\n", BodyLines(lines, kw, kw[k]))
          /\ \A k \in 1..Len(model) :
               \/ \E i \in 1..Len(stored) :
                    CleanedName(lines[stored[i]]) = model[k][1]
               \/ model[k][1] \in Range(required_sections)

\* the sentence with 'compliance' in it closed the section 'Risk Assessment'
\* after one body line and opened a section keyed by the sentence
C26_Witness ==
  /\ pc[1] = "validate"
  /\ required_sections = <<>>
  /\ response_text[1] =
       "Risk Assessment\nThe system shall be validated.\nMeets FDA compliance rules.\nThe system shall be validated."
  /\ brd_sections[1] =
       << <<"Risk Assessment", "The system shall be validated.">>,
          <<"Meets FDA compliance rules.", "The system shall be validated.">> >>

\* C29: when several header lines clean to the same name, the model has one
\* key of that name, and its content is the body of the last of them that
\* was stored, not a merge with the earlier bodies.
C29_RepeatedHeaderOverwrites ==
  \A t \in Threads :
    pc[t] = "validate" =>
      LET lines == split(response_text[t], "\n")
          hd == HeaderPositions(lines)
          stored == FlushedPositions(lines, hd)
          model == brd_sections[t]
      IN  \A a, b \in 1..Len(stored) :
            (a < b /\ CleanedName(lines[stored[a]]) = CleanedName(lines[stored[b]])
               /\ \A c \in (b + 1)..Len(stored) :
                    CleanedName(lines[stored[c]]) # CleanedName(lines[stored[b]])) =>
              /\ Cardinality({k \in 1..Len(model) :
                                model[k][1] = CleanedName(lines[stored[b]])}) = 1
              /\ \A k \in 1..Len(model) :
                   model[k][1] = CleanedName(lines[stored[b]]) =>
                     model[k][2] = join("\n", BodyLines(lines, hd, stored[b]))

\* 'Project Overview' occurs twice, first with a body and then with none
\* before the next header; the model keeps the empty second body only
C29_Witness ==
  /\ pc[1] = "validate"
  /\ required_sections = <<>>
  /\ response_text[1] =
       "Project Overview\nThe system shall be validated.\nProject Overview\nRisk Assessment"
  /\ brd_sections[1] = << <<"Project Overview", "">> >>

\* the cleaned names of the stored headers, each at its first occurrence
ParsedOrder(lines, hd) ==
  LET stored == FlushedPositions(lines, hd)
      names == SelectSeq([k \in 1..Len(stored) |-> CleanedName(lines[stored[k]])],
                         LAMBDA x : TRUE)
      first == SelectSeq([k \in 1..Len(names) |-> k],
                         LAMBDA k : \A m \in 1..(k - 1) : names[m] # names[k])
  IN  [k \in 1..Len(first) |-> names[first[k]]]

\* C30: the keys of the parsed model are the parsed sections in the order in
\* which they were first stored, followed by the required sections that were
\* not parsed, in the order of the required-section list.
C30_KeyOrder ==
  \A t \in Threads :
    pc[t] = "validate" =>
      LET lines == split(response_text[t], "\n")
          parsed == ParsedOrder(lines, HeaderPositions(lines))
      IN  dict_keys(brd_sections[t]) =
            parsed \o SelectSeq(required_sections,
                                LAMBDA r : r \notin Range(parsed))

\* 'Business Objectives' was parsed before 'Project Overview' and the missing
\* 'Functional Requirements' comes last: the order is not the required one
C30_Witness ==
  /\ pc[1] = "validate"
  /\ required_sections = ScenarioASections
  /\ response_text[1] =
       "  Business Objectives\t\nThe system shall be validated.\nProject Overview\nThe system shall be validated."
  /\ dict_keys(brd_sections[1]) =
       <<"Business Objectives", "Project Overview", "Functional Requirements">>

(***************************************************************************)
(* C28: _make_mistral_request calls the Mistral API at most 3 times per     *)
(* request. It stops at the first attempt that succeeds and returns that   *)
(* text: a success is the last call of its request and its text is the     *)
(* response that is parsed. Every failure before the third attempt leads   *)
(* to another attempt: after one or two failures the request is still      *)
(* calling, and the next call follows. When all 3 attempts fail the        *)
(* request has failed with no response text and no section model; a        *)
(* section model exists only after a successful call.                      *)
(***************************************************************************)
Failures(t) == {i \in 1..Len(api_calls[t]) : api_calls[t][i][1] # "ok"}

RetryDiscipline ==
  \A t \in Threads :
    LET n == Len(api_calls[t])
        succeeded == n > 0 /\ api_calls[t][n][1] = "ok"
    IN  /\ n <= 3
        /\ \A i \in 1..n : api_calls[t][i][1] = "ok" => i = n
        /\ succeeded <=> pc[t] \in {"request", "validate"}
        /\ succeeded => response_text[t] = api_calls[t][n][2]
        /\ (~succeeded /\ n \in 1..2) => pc[t] = "calling"
        /\ (~succeeded /\ n = 3) <=> pc[t] = "failed"
        /\ ~succeeded => response_text[t] = "" /\ brd_sections[t] = <<>>
        /\ pc[t] = "validate" =>
             brd_sections[t] = _parse_response(api_calls[t][n][2], required_sections)

C28_AtMostThreeAttempts ==
  /\ []RetryDiscipline
  /\ \A t \in Threads : \A k \in 1..2 :
       (pc[t] = "calling" /\ Len(api_calls[t]) = k)
         ~> (Len(api_calls[t]) = k + 1)

C28_Witness ==
  \E t, u \in Threads :
    /\ pc[t] = "validate"
    /\ Len(api_calls[t]) = 3
    /\ api_calls[t][1][1] = "ValueError"
    /\ api_calls[t][2][1] = "TimeoutError"
    /\ api_calls[t][3] = <<"ok", response_text[t]>>
    /\ Len(brd_sections[t]) = 8
    /\ pc[u] = "failed"
    /\ Cardinality(Failures(u)) = 3
    /\ brd_sections[u] = <<>>

====
